---- MODULE Spec2Model ----
(***************************************************************************)
(* Model of the request pipeline of src/main.py: upload_and_process        *)
(* validates the file name, uploads the audio to blob storage, submits and *)
(* polls a batch transcription job, extracts the transcript and generates  *)
(* three clinical documents.                                               *)
(*                                                                         *)
(* Text is modelled as a sequence of one-character strings (file names,    *)
(* phrases, transcripts, notes) and a completion of the billing-code call  *)
(* as a sequence of lexical tokens (a code fence, a JSON value, white      *)
(* space, other text).  The remote services are the environment: every     *)
(* response they can give is an input the actions choose with \E.          *)
(***************************************************************************)
EXTENDS Integers, Sequences, FiniteSets, TLC

VARIABLES
    pc,              \* position of the request inside upload_and_process
    filename,        \* file.filename
    attempt,         \* transcribe_audio: iterations of the poll loop begun
                     \* and left (`for attempt in range(60)`)
    elapsed,         \* seconds since the job was submitted, while
                     \* transcribe_audio runs (saturating)
    jobStatus,       \* state of the job at the transcription backend
    jobFiles,        \* result manifest of the job (kinds of its files)
    fileIdx,         \* position of `for file_info in files_data['values']`
    content_body,    \* the transcript file's body the text was taken from
    transcript,      \* value returned by transcribe_audio
    soap_note,       \* value returned by generate_soap_note
    referral_letter, \* value returned by generate_referral_letter
    codes,           \* value returned by generate_billing_codes
    status,          \* HTTP status of the answer (0: none yet or unclassified)
    detail,          \* detail text of the HTTPException
    codes_completion,\* the completion the billing-code call received
    calls,           \* number of remote calls issued, per operation (the
                     \* status polls are counted by attempt)
    events,          \* what the remote services have answered so far
    job_error,       \* the 'error' entry of the status response that
                     \* reported the job as Failed
    inputs,          \* the argument each generation call was invoked with
    requests,        \* concurrent requests: position, file name, file_id
                     \* and blob_name of each
    blobs            \* the storage container: the objects written, each
                     \* with the request that wrote it

\* the state of the single request of Spec
pipeline == <<pc, filename, attempt, elapsed, jobStatus, jobFiles,
              fileIdx, content_body, transcript, soap_note, referral_letter,
              codes, codes_completion, status, detail, calls, events,
              job_error, inputs>>

\* the state of the concurrent requests of StorageSpec
storage == <<requests, blobs>>

vars == <<pipeline, storage>>

-----------------------------------------------------------------------------
(* Bounds of the model *)

\* elapsed is recorded up to this many seconds and saturates there
ClockCap == 130
\* a status poll takes either no time or this many seconds
MaxPollDuration == 5
\* the counters of manifest and transcript-file fetches saturate here
CountCap == 2
\* longest phrase list of a transcript file
MaxPhrases == 2
\* number of requests that run concurrently in StorageSpec
NumRequests == 2

(* Constants of the program *)

\* for attempt in range(60)
MaxAttempts == 60
\* await asyncio.sleep(5)
SleepSeconds == 5

Min(a, b) == IF a < b THEN a ELSE b

-----------------------------------------------------------------------------
(* Text *)

Whitespace == {" ", "\n"}

\* str.lower() on one character (the letters the model's file names use)
LowerChar(c) ==
    CASE c = "A" -> "a" [] c = "C" -> "c" [] c = "F" -> "f" [] c = "L" -> "l"
      [] c = "M" -> "m" [] c = "P" -> "p" [] c = "V" -> "v" [] c = "W" -> "w"
      [] OTHER -> c

\* str.lower()
Lower(s) == [i \in 1..Len(s) |-> LowerChar(s[i])]

\* str.endswith(suffix)
EndsWith(s, suffix) ==
    /\ Len(s) >= Len(suffix)
    /\ SubSeq(s, Len(s) - Len(suffix) + 1, Len(s)) = suffix

\* str.strip(): drops leading and trailing white space
RECURSIVE LStrip(_)
LStrip(s) ==
    IF s # <<>> /\ Head(s) \in Whitespace THEN LStrip(Tail(s)) ELSE s

RECURSIVE RStrip(_)
RStrip(s) ==
    IF s # <<>> /\ s[Len(s)] \in Whitespace
    THEN RStrip(SubSeq(s, 1, Len(s) - 1)) ELSE s

Strip(s) == RStrip(LStrip(s))

\* str.replace(tok, ''), on a token sequence
RECURSIVE Remove(_, _)
Remove(s, tok) ==
    IF s = <<>> THEN <<>>
    ELSE IF Head(s) = tok THEN Remove(Tail(s), tok)
    ELSE <<Head(s)>> \o Remove(Tail(s), tok)

-----------------------------------------------------------------------------
(* Exceptions *)

\* raise HTTPException(status_code=code, detail=text)
HTTPException(code, text) == [http |-> TRUE, status |-> code, detail |-> text]

\* any other exception (JSON decoding, KeyError, AttributeError, validation)
OtherException(text) == [http |-> FALSE, status |-> 0, detail |-> <<text>>]

\* upload_to_azure_blob: `except Exception` wraps everything
UploadHandler(e) ==
    HTTPException(500, <<"Blob upload failed: ">> \o e.detail)

\* transcribe_audio: `except HTTPException: raise`, then `except Exception`
TranscribeHandler(e) ==
    IF e.http THEN e
    ELSE HTTPException(500, <<"Transcription failed: ">> \o e.detail)

\* A handler that lets every exception through as it is
ReraiseHandler(e) == e

\* upload_and_process: `except HTTPException: raise`, then `except Exception`
ProcessHandler(e) ==
    IF e.http THEN e
    ELSE HTTPException(500, <<"Processing failed: ">> \o e.detail)

-----------------------------------------------------------------------------
(* File type validation *)

AudioExtensions ==
    { <<".", "w", "a", "v">>, <<".", "m", "p", "3">>,
      <<".", "m", "4", "a">>, <<".", "f", "l", "a", "c">> }

\* The file names a client can send
Filenames ==
    { <<"a", ".", "w", "a", "v">>,
      <<"B", ".", "M", "P", "3">>,
      <<"c", ".", "M", "4", "a">>,
      <<".", "F", "L", "A", "C">>,
      <<"d", ".", "t", "x", "t">>,
      <<"w", "a", "v">>,
      <<"e", "w", "a", "v">>,
      <<"f", ".", "w", "a", "v", ".", "e", "x", "e">>,
      <<>> }

\* A check that accepts a name holding an extension anywhere
ContainsAudioExtension(name) ==
    \E ext \in AudioExtensions :
        \E i \in 1..Len(name) :
            /\ i + Len(ext) - 1 <= Len(name)
            /\ SubSeq(Lower(name), i, i + Len(ext) - 1) = ext

\* file.filename.lower().endswith(('.wav', '.mp3', '.m4a', '.flac'))
IsAudioFile(name) ==
    \E ext \in AudioExtensions : EndsWith(Lower(name), ext)

-----------------------------------------------------------------------------
(* Transcript extraction *)

\* The phrases a transcript file can hold: has = FALSE is a phrase without
\* a 'display' entry
Phrases ==
    { [has |-> TRUE, display |-> <<"a">>],
      [has |-> TRUE, display |-> <<" ", "b">>],
      [has |-> FALSE, display |-> <<>>] }

PhraseLists ==
    UNION { [1..n -> Phrases] : n \in 0..MaxPhrases }

\* The bodies a transcript file can have: malformed (not JSON, or not an
\* object), an object without 'combinedRecognizedPhrases', or a phrase list
ContentBodies ==
    { [kind |-> "malformed", phrases |-> <<>>],
      [kind |-> "nokey", phrases |-> <<>>] }
    \cup { [kind |-> "phrases", phrases |-> ps] : ps \in PhraseLists }

NoTranscription ==
    << "N", "o", " ", "t", "r", "a", "n", "s", "c", "r", "i", "p", "t", "i",
       "o", "n", " ", "a", "v", "a", "i", "l", "a", "b", "l", "e" >>

\* phrase.get('display', '')
PhraseDisplay(p) == IF p.has THEN p.display ELSE <<>>

\* for phrase in ...: combined_text += phrase.get('display', '') + " "
RECURSIVE CombinedText(_)
CombinedText(ps) ==
    IF ps = <<>> THEN <<>>
    ELSE PhraseDisplay(Head(ps)) \o <<" ">> \o CombinedText(Tail(ps))

\* transcription_result.get('combinedRecognizedPhrases', [])
RecognizedPhrases(body) ==
    IF body.kind = "phrases" THEN body.phrases ELSE <<>>

\* An extraction that forgets to strip the combined text
ExtractTranscriptNoStrip(body) ==
    LET result == CombinedText(RecognizedPhrases(body))
    IN  IF result = <<>> THEN NoTranscription ELSE result

\* result = combined_text.strip(); return result or "No transcription available"
ExtractTranscript(body) ==
    LET result == Strip(CombinedText(RecognizedPhrases(body)))
    IN  IF result = <<>> THEN NoTranscription ELSE result

\* The result manifests a succeeded job can have (kinds of its files): the
\* job is submitted with one content URL, so it has at most one transcript
Manifests ==
    { <<"TranscriptionReport">>,
      <<"TranscriptionReport", "Transcription">>,
      <<"Transcription", "TranscriptionReport">> }

\* for file_info in files_data['values']: if file_info['kind'] == 'Transcription'
\* the first such file at or after position `from`, 0 when there is none
NextTranscriptionFile(files, from) ==
    LET S == { i \in from..Len(files) : files[i] = "Transcription" }
    IN  IF S = {} THEN 0 ELSE CHOOSE i \in S : \A j \in S : i <= j

-----------------------------------------------------------------------------
(* Document generation.  In a completion the token ~~~json stands for a   *)
(* code fence with the json language tag and ~~~ for a bare code fence.   *)

\* What the text-generation backend can answer to a SOAP-note or referral
\* request: an error, a completion without content, or a text
NoteTexts == { <<" ", "S", "\n">>, <<>> }

NoteCompletions ==
    { [kind |-> "error", text |-> <<>>], [kind |-> "none", text |-> <<>>] }
    \cup { [kind |-> "text", text |-> t] : t \in NoteTexts }

\* JSON values a billing-code completion can denote
CodeEntry(c, d) == [code |-> c, description |-> d]

ExpectedCodes ==
    [ jtype |-> "object", keys |-> {"cpt_codes", "icd10_codes"},
      cpt_codes |-> << CodeEntry("98940", <<"CMT, spinal, 1-2 regions">>) >>,
      icd10_codes |-> << CodeEntry("M54.5", <<"Low back pain">>) >> ]

OtherObject ==
    [ jtype |-> "object", keys |-> {"codes"},
      cpt_codes |-> <<>>, icd10_codes |-> <<>> ]

ArrayValue ==
    [ jtype |-> "array", keys |-> {}, cpt_codes |-> <<>>, icd10_codes |-> <<>> ]

NoCodes ==
    [ jtype |-> "none", keys |-> {}, cpt_codes |-> <<>>, icd10_codes |-> <<>> ]

\* Tokens that are one JSON value each
JSONTokens == { "{codes}", "{other}", "[list]" }

JSONValue(tok) ==
    CASE tok = "{codes}" -> ExpectedCodes
      [] tok = "{other}" -> OtherObject
      [] tok = "[list]" -> ArrayValue

\* What the backend can answer to a billing-code request
CodeTexts ==
    { << "{codes}" >>,
      << " ", "{codes}", "\n" >>,
      << "~~~json", "\n", "{codes}", "\n", "~~~" >>,
      << "~~~", "\n", "{codes}", "\n", "~~~" >>,
      << "~~~json", "\n", "sorry", "\n", "~~~" >>,
      << "{other}" >>,
      << "[list]" >>,
      << "sorry" >>,
      << "{codes}", "sorry" >>,
      <<>> }

CodeCompletions ==
    { [kind |-> "error", text |-> <<>>], [kind |-> "none", text |-> <<>>] }
    \cup { [kind |-> "text", text |-> t] : t \in CodeTexts }

Returned(v) == [raised |-> FALSE, value |-> v, exc |-> OtherException("")]
Raised(e) == [raised |-> TRUE, value |-> <<>>, exc |-> e]

\* generate_soap_note: response.choices[0].message.content.strip(), and
\* `except Exception` raising HTTPException(500)
generate_soap_note(c) ==
    IF c.kind = "text" THEN Returned(Strip(c.text))
    ELSE Raised(HTTPException(500,
                  <<"SOAP note generation failed: ", c.kind>>))

\* generate_referral_letter: the same shape
generate_referral_letter(c) ==
    IF c.kind = "text" THEN Returned(Strip(c.text))
    ELSE Raised(HTTPException(500,
                  <<"Referral letter generation failed: ", c.kind>>))

\* codes_text.startswith(json fence)
StartsWithJsonFence(text) == text # <<>> /\ Head(text) = "~~~json"

\* codes_text.replace(json fence, '').replace(fence, '').strip()
StripFence(text) == Strip(Remove(Remove(text, "~~~json"), "~~~"))

\* json.loads: one JSON value, white space around it allowed
json_loads(text) ==
    LET t == Strip(text)
    IN  IF Len(t) = 1 /\ t[1] \in JSONTokens
        THEN [ok |-> TRUE, value |-> JSONValue(t[1])]
        ELSE [ok |-> FALSE, value |-> NoCodes]

\* A generator without a fallback structure
NoFallbackCodes(why) == NoCodes

\* the fallback structure of generate_billing_codes
FallbackCodes(why) ==
    [ jtype |-> "object", keys |-> {"cpt_codes", "icd10_codes"},
      cpt_codes |->
          << CodeEntry("Error", <<"Code generation failed: ", why>>) >>,
      icd10_codes |->
          << CodeEntry("Error", <<"Please review transcript manually">>) >> ]

\* generate_billing_codes: strip, drop a json fence, json.loads, and
\* `except Exception` returning the fallback structure
generate_billing_codes(c) ==
    IF c.kind # "text" THEN FallbackCodes(c.kind)
    ELSE LET codes_text == Strip(c.text)
             unfenced == IF StartsWithJsonFence(codes_text)
                         THEN StripFence(codes_text) ELSE codes_text
             parsed == json_loads(unfenced)
         IN  IF parsed.ok THEN parsed.value ELSE FallbackCodes("JSONDecodeError")

\* TranscriptionResponse(codes=...): `codes: dict` is validated
ValidResponse(c) == c.jtype = "object"

-----------------------------------------------------------------------------
(* The request *)

NoCalls ==
    [ upload |-> 0, submit |-> 0, manifest |-> 0, content |-> 0,
      soap |-> 0, referral |-> 0, codes |-> 0 ]

\* one more call of operation op; manifest and content counts saturate
Issue(op) ==
    calls' = [calls EXCEPT ![op] =
                 IF op \in {"manifest", "content"}
                 THEN Min(@ + 1, CountCap) ELSE @ + 1]

Record(ev) == events' = events \cup ev

\* time passing, recorded up to ClockCap: the sleep and the status polls
\* take time, the two fetches of the extraction are taken as instantaneous
After(t, d) == Min(t + d, ClockCap)

PollDurations == {0, MaxPollDuration}

\* HTTP statuses the transcription backend answers a submission with
SubmitStatuses == {201, 202, 400}

\* HTTP statuses of a GET on the transcription backend
GetStatuses == {200, 503}

\* the job moves from Running to a final status and stays there
JobSuccessors(s) ==
    IF s = "Running" THEN {"Running", "Succeeded", "Failed"} ELSE {s}

\* The 'error' entry of a status response: absent, or carrying a message
NoError == [has |-> FALSE, message |-> ""]

StatusErrors == { NoError, [has |-> TRUE, message |-> "audio rejected"] }

\* An error message that ignores what the backend reported
DefaultErrorMessage(err) == "Unknown error"

\* status_response.get('error', {}).get('message', 'Unknown error')
ErrorMessage(err) == IF err.has THEN err.message ELSE "Unknown error"

ErrorMessages == { ErrorMessage(err) : err \in StatusErrors }

\* HTTP statuses of a submission the transcription backend has answered
SubmitAnswered(code) ==
    CASE code = 201 -> "submit_201"
      [] code = 202 -> "submit_202"
      [] OTHER -> "submit_rejected"

NoInputs == [ soap |-> <<>>, referral |-> <<>>, codes |-> <<>> ]

Init ==
    /\ pc = "start"
    /\ filename \in Filenames
    /\ attempt = 0
    /\ elapsed = 0
    /\ jobStatus = "NoJob"
    /\ jobFiles = <<>>
    /\ fileIdx = 0
    /\ content_body = [kind |-> "nokey", phrases |-> <<>>]
    /\ transcript = <<>>
    /\ soap_note = <<>>
    /\ referral_letter = <<>>
    /\ codes = NoCodes
    /\ codes_completion = [kind |-> "none", text |-> <<>>]
    /\ status = 0
    /\ detail = <<>>
    /\ calls = NoCalls
    /\ events = {}
    /\ job_error = NoError
    /\ inputs = NoInputs
    /\ requests = <<>>
    /\ blobs = {}

\* an exception leaves upload_and_process through its handlers
Raise(e) ==
    LET h == ProcessHandler(e)
    IN  /\ pc' = "done"
        /\ status' = h.status
        /\ detail' = h.detail

\* transcribe_audio returns or raises: its local state is gone
LeaveTranscribe ==
    /\ attempt' = 0
    /\ fileIdx' = 0
    /\ elapsed' = 0

\* an exception leaves transcribe_audio and then upload_and_process
RaiseFromTranscribe(e) ==
    /\ Raise(TranscribeHandler(e))
    /\ LeaveTranscribe

\* A loop that goes from one poll straight into the next
BusyRetry ==
    /\ attempt' = attempt + 1
    /\ pc' = "poll"

\* `continue` of the poll loop, and the end of its body
NextAttempt ==
    /\ attempt' = attempt + 1
    /\ pc' = "loop"

\* upload_and_process, lines 84-85: the file type check
ValidateFile ==
    /\ pc = "start"
    /\ IF IsAudioFile(filename)
       THEN pc' = "upload" /\ UNCHANGED <<status, detail>>
       ELSE Raise(HTTPException(400, <<"Invalid file type. Please upload audio files only.">>))
    /\ UNCHANGED <<storage, job_error, inputs>>
    /\ UNCHANGED <<filename, content_body, attempt, elapsed, jobStatus,
                   jobFiles, fileIdx, transcript, soap_note,
                   referral_letter, codes, codes_completion, calls, events>>

\* upload_to_azure_blob
UploadToAzureBlob ==
    /\ pc = "upload"
    /\ Issue("upload")
    /\ \E ok \in BOOLEAN :
          IF ok
          THEN /\ pc' = "submit"
               /\ UNCHANGED <<status, detail, events>>
          ELSE /\ Raise(UploadHandler(OtherException("storage error")))
               /\ Record({"upload_failed"})
    /\ UNCHANGED <<storage, job_error, inputs>>
    /\ UNCHANGED <<filename, content_body, attempt, elapsed, jobStatus,
                   jobFiles, fileIdx, transcript, soap_note,
                   referral_letter, codes, codes_completion>>

\* transcribe_audio, lines 184-196: submit the transcription job
SubmitJob ==
    /\ pc = "submit"
    /\ Issue("submit")
    /\ \E code \in SubmitStatuses, readable \in BOOLEAN :
          IF code # 201
          THEN /\ RaiseFromTranscribe(HTTPException(500,
                     <<"Failed to start transcription: ", "error_text">>))
               /\ Record({"submit_failed", SubmitAnswered(code)})
               /\ UNCHANGED jobStatus
          ELSE IF ~readable
          THEN /\ RaiseFromTranscribe(OtherException("JSONDecodeError"))
               /\ Record({"submit_failed", "submit_malformed"})
               /\ UNCHANGED jobStatus
          ELSE /\ pc' = "loop"
               /\ attempt' = 0
               /\ elapsed' = 0
               /\ jobStatus' = "Running"
               /\ Record({SubmitAnswered(code)})
               /\ UNCHANGED <<fileIdx, status, detail>>
    /\ UNCHANGED <<storage, job_error, inputs>>
    /\ UNCHANGED <<filename, content_body, jobFiles, transcript, soap_note,
                   referral_letter, codes, codes_completion>>

\* lines 199-200: the next iteration of the loop starts with the sleep
PollSleep ==
    /\ pc = "loop"
    /\ attempt < MaxAttempts
    /\ elapsed' = After(elapsed, SleepSeconds)
    /\ pc' = "poll"
    /\ UNCHANGED <<storage, job_error, inputs>>
    /\ UNCHANGED <<filename, content_body, attempt, jobStatus, jobFiles,
                   fileIdx, transcript, soap_note, referral_letter, codes,
                   codes_completion, status, detail, calls, events>>

\* lines 246-247: the loop is exhausted
PollTimeout ==
    /\ pc = "loop"
    /\ attempt >= MaxAttempts
    /\ RaiseFromTranscribe(HTTPException(408, <<"Transcription timeout">>))
    /\ Record({"timed_out"})
    /\ UNCHANGED <<storage, job_error, inputs>>
    /\ UNCHANGED <<filename, content_body, jobStatus, jobFiles, transcript, soap_note,
                   referral_letter, codes, codes_completion, calls>>

\* lines 202-212 and 241-244: one status poll
PollStatus ==
    /\ pc = "poll"
    /\ \E s \in JobSuccessors(jobStatus) :
          /\ jobStatus' = s
          /\ \E m \in IF s = "Succeeded" /\ jobStatus # "Succeeded"
                      THEN Manifests ELSE {jobFiles} : jobFiles' = m
          /\ \E code \in GetStatuses, readable \in BOOLEAN,
                err \in StatusErrors, d \in PollDurations :
                IF code # 200
                THEN /\ NextAttempt
                     /\ elapsed' = After(elapsed, d)
                     /\ UNCHANGED <<fileIdx, status, detail, events,
                                    job_error>>
                ELSE IF ~readable
                THEN /\ RaiseFromTranscribe(OtherException("JSONDecodeError"))
                     /\ Record({"status_malformed"})
                     /\ UNCHANGED job_error
                ELSE IF s = "Succeeded"
                THEN /\ pc' = "files"
                     /\ elapsed' = After(elapsed, d)
                     /\ Record({"status_succeeded"})
                     /\ UNCHANGED <<attempt, fileIdx, status, detail,
                                    job_error>>
                ELSE IF s = "Failed"
                THEN /\ RaiseFromTranscribe(HTTPException(500,
                           <<"Transcription failed: ", ErrorMessage(err)>>))
                     /\ Record({"status_failed"})
                     /\ job_error' = err
                ELSE /\ NextAttempt
                     /\ elapsed' = After(elapsed, d)
                     /\ UNCHANGED <<fileIdx, status, detail, events,
                                    job_error>>
    /\ UNCHANGED <<storage, inputs>>
    /\ UNCHANGED <<filename, content_body, transcript, soap_note, referral_letter, codes,
                   codes_completion, calls>>

\* lines 214-225: fetch the result manifest and look for the transcript file
GetFiles ==
    /\ pc = "files"
    /\ Issue("manifest")
    /\ \E code \in GetStatuses, readable \in BOOLEAN :
          IF code # 200
          THEN /\ NextAttempt
               /\ Record({"manifest_failed"})
               /\ UNCHANGED <<elapsed, fileIdx, status, detail>>
          ELSE IF ~readable
          THEN /\ RaiseFromTranscribe(OtherException("JSONDecodeError"))
               /\ Record({"manifest_malformed"})
          ELSE LET i == NextTranscriptionFile(jobFiles, 1)
               IN  IF i = 0
                   THEN /\ NextAttempt
                        /\ Record({"no_transcription_file"})
                        /\ UNCHANGED <<elapsed, fileIdx, status,
                                       detail>>
                   ELSE /\ pc' = "content"
                        /\ fileIdx' = i
                        /\ UNCHANGED <<attempt, elapsed, status,
                                       detail, events>>
    /\ UNCHANGED <<storage, job_error, inputs>>
    /\ UNCHANGED <<filename, content_body, jobStatus, jobFiles, transcript, soap_note,
                   referral_letter, codes, codes_completion>>

\* lines 226-239: fetch the transcript file and extract the text
GetContent ==
    /\ pc = "content"
    /\ Issue("content")
    /\ \E code \in GetStatuses, body \in ContentBodies :
          IF code # 200
          THEN LET i == NextTranscriptionFile(jobFiles, fileIdx + 1)
               IN  /\ Record({"content_failed"})
                   /\ IF i = 0
                      THEN NextAttempt /\ fileIdx' = 0
                      ELSE fileIdx' = i /\ UNCHANGED <<pc, attempt>>
                   /\ UNCHANGED <<elapsed, content_body,
                                  transcript, status, detail>>
          ELSE IF body.kind = "malformed"
          THEN /\ RaiseFromTranscribe(OtherException("JSONDecodeError"))
               /\ Record({"content_malformed"})
               /\ UNCHANGED <<content_body, transcript>>
          ELSE /\ content_body' = body
               /\ transcript' = ExtractTranscript(body)
               /\ pc' = "gen_soap"
               /\ LeaveTranscribe
               /\ Record(IF body.kind = "nokey" THEN {"content_nokey"} ELSE {})
               /\ UNCHANGED <<status, detail>>
    /\ UNCHANGED <<storage, job_error, inputs>>
    /\ UNCHANGED <<filename, jobStatus, jobFiles, soap_note,
                   referral_letter, codes, codes_completion>>

\* A pipeline that feeds each call with the document generated before it
ChainedInput(op) ==
    CASE op = "soap" -> transcript
      [] op = "referral" -> soap_note
      [] op = "codes" -> referral_letter

\* lines 104-106: the three calls are invoked with the local `transcript`
GenerationInput(op) == transcript

\* line 104: soap_note = await generate_soap_note(transcript)
GenerateSoapNote ==
    /\ pc = "gen_soap"
    /\ Issue("soap")
    /\ \E c \in NoteCompletions :
          LET o == generate_soap_note(c)
          IN  IF o.raised
              THEN /\ Raise(o.exc)
                   /\ Record({"soap_failed"})
                   /\ UNCHANGED soap_note
              ELSE /\ soap_note' = o.value
                   /\ pc' = "gen_referral"
                   /\ UNCHANGED <<status, detail, events>>
    /\ inputs' = [inputs EXCEPT !.soap = GenerationInput("soap")]
    /\ UNCHANGED <<storage, job_error>>
    /\ UNCHANGED <<filename, content_body, attempt, elapsed, jobStatus,
                   jobFiles, fileIdx, transcript, referral_letter, codes,
                   codes_completion>>

\* line 105: referral_letter = await generate_referral_letter(transcript)
GenerateReferralLetter ==
    /\ pc = "gen_referral"
    /\ Issue("referral")
    /\ \E c \in NoteCompletions :
          LET o == generate_referral_letter(c)
          IN  IF o.raised
              THEN /\ Raise(o.exc)
                   /\ Record({"referral_failed"})
                   /\ UNCHANGED referral_letter
              ELSE /\ referral_letter' = o.value
                   /\ pc' = "gen_codes"
                   /\ UNCHANGED <<status, detail, events>>
    /\ inputs' = [inputs EXCEPT !.referral = GenerationInput("referral")]
    /\ UNCHANGED <<storage, job_error>>
    /\ UNCHANGED <<filename, content_body, attempt, elapsed, jobStatus,
                   jobFiles, fileIdx, transcript, soap_note, codes,
                   codes_completion>>

\* lines 106-118: codes = await generate_billing_codes(transcript), then the
\* response is assembled
GenerateBillingCodes ==
    /\ pc = "gen_codes"
    /\ Issue("codes")
    /\ \E c \in CodeCompletions :
          LET v == generate_billing_codes(c)
          IN  /\ codes' = v
              /\ codes_completion' = c
              /\ Record(IF c.kind # "text" THEN {"codes_failed"} ELSE {})
              /\ IF ValidResponse(v)
                 THEN /\ pc' = "done"
                      /\ status' = 200
                      /\ detail' = <<>>
                 ELSE Raise(OtherException("ValidationError"))
    /\ inputs' = [inputs EXCEPT !.codes = GenerationInput("codes")]
    /\ UNCHANGED <<storage, job_error>>
    /\ UNCHANGED <<filename, content_body, attempt, elapsed, jobStatus,
                   jobFiles, fileIdx, transcript, soap_note,
                   referral_letter>>

\* lines 113-118: the response assembled from the locals
TranscriptionResponse ==
    [ transcript |-> transcript, soap_note |-> soap_note,
      referral_letter |-> referral_letter, codes |-> codes ]

Next ==
    \/ ValidateFile
    \/ UploadToAzureBlob
    \/ SubmitJob
    \/ PollSleep
    \/ PollTimeout
    \/ PollStatus
    \/ GetFiles
    \/ GetContent
    \/ GenerateSoapNote
    \/ GenerateReferralLetter
    \/ GenerateBillingCodes

Spec == Init /\ [][Next]_vars

\* every remote call returns and every await resumes
FairSpec == Spec /\ WF_vars(Next)

-----------------------------------------------------------------------------
(* Concurrent requests on the storage container: the steps of              *)
(* upload_and_process up to the return of upload_to_azure_blob, for        *)
(* several requests whose steps interleave at every await.                 *)

Requests == 1..NumRequests

\* The file names the concurrent clients send
UploadNames ==
    { <<"a", ".", "w", "a", "v">>,
      <<"0", "0", "_", "a", ".", "w", "a", "v">>,
      <<"d", ".", "t", "x", "t">> }

\* str(uuid.uuid4()) is a text of fixed length (36 characters); two digits
\* stand for it here
IdDigits == {"0", "1"}

FileIds == { <<a, b>> : a \in IdDigits, b \in IdDigits }

\* the ids drawn so far
DrawnIds == { requests[r].file_id : r \in Requests } \ { <<>> }

\* uuid.uuid4(): a random 122-bit value, taken to differ from every value
\* drawn before
uuid4 == FileIds \ DrawnIds

\* A blob named by the original file name alone
OriginalName(file_id, name) == name

\* blob_name = f"{file_id}_{file.filename}"
BlobName(file_id, name) == file_id \o <<"_">> \o name

\* blob_client.upload_blob(file_content, overwrite=True): the object under
\* the key is created, or replaced when there is one
upload_blob(container, key, r) ==
    { b \in container : b.key # key } \cup { [key |-> key, by |-> r] }

StorageInit ==
    /\ requests \in [Requests -> { [pc |-> "start", filename |-> n,
                                    file_id |-> <<>>, blob_name |-> <<>>] :
                                      n \in UploadNames }]
    /\ blobs = {}
    \* the single request of Spec does not run
    /\ pc = "start"
    /\ filename = <<>>
    /\ attempt = 0
    /\ elapsed = 0
    /\ jobStatus = "NoJob"
    /\ jobFiles = <<>>
    /\ fileIdx = 0
    /\ content_body = [kind |-> "nokey", phrases |-> <<>>]
    /\ transcript = <<>>
    /\ soap_note = <<>>
    /\ referral_letter = <<>>
    /\ codes = NoCodes
    /\ codes_completion = [kind |-> "none", text |-> <<>>]
    /\ status = 0
    /\ detail = <<>>
    /\ calls = NoCalls
    /\ events = {}
    /\ job_error = NoError
    /\ inputs = NoInputs

\* upload_and_process, lines 84-85, of request r
CheckFileType(r) ==
    /\ requests[r].pc = "start"
    /\ requests' = [requests EXCEPT ![r].pc =
                       IF IsAudioFile(requests[r].filename)
                       THEN "name" ELSE "rejected"]
    /\ UNCHANGED <<blobs, pipeline>>

\* lines 88-89 of request r: file_id and blob_name
NameBlob(r) ==
    /\ requests[r].pc = "name"
    /\ \E id \in uuid4 :
          requests' = [requests EXCEPT
                          ![r].file_id = id,
                          ![r].blob_name = BlobName(id, requests[r].filename),
                          ![r].pc = "upload"]
    /\ UNCHANGED <<blobs, pipeline>>

\* upload_to_azure_blob of request r: the object is written, or the upload
\* fails and nothing is written
UploadBlob(r) ==
    /\ requests[r].pc = "upload"
    /\ \E ok \in BOOLEAN :
          IF ok
          THEN /\ blobs' = upload_blob(blobs, requests[r].blob_name, r)
               /\ requests' = [requests EXCEPT ![r].pc = "uploaded"]
          ELSE /\ requests' = [requests EXCEPT ![r].pc = "failed"]
               /\ UNCHANGED blobs
    /\ UNCHANGED pipeline

StorageNext ==
    \E r \in Requests :
        \/ CheckFileType(r)
        \/ NameBlob(r)
        \/ UploadBlob(r)

StorageSpec == StorageInit /\ [][StorageNext]_vars

-----------------------------------------------------------------------------
(* Vocabulary of the properties *)

WhitelistedExtensions ==
    { <<".", "w", "a", "v">>, <<".", "m", "p", "3">>,
      <<".", "m", "4", "a">>, <<".", "f", "l", "a", "c">> }

\* the name ends, whatever the case of its letters, in a whitelisted extension
HasWhitelistedExtension(name) ==
    \E ext \in WhitelistedExtensions :
        /\ Len(name) >= Len(ext)
        /\ \A i \in 1..Len(ext) :
              LowerChar(name[Len(name) - Len(ext) + i]) = ext[i]

Done == pc = "done"

\* the answer is the complete response
CompleteResponse ==
    /\ status = 200
    /\ calls.soap = 1 /\ calls.referral = 1 /\ calls.codes = 1
    /\ codes.jtype = "object"
    /\ detail = <<>>

\* the answer is one error with a classified status
ClassifiedError ==
    /\ status \in {400, 500, 408}
    /\ detail # <<>>

NoGenerationCall ==
    calls.soap = 0 /\ calls.referral = 0 /\ calls.codes = 0

\* a value with both lists present, each entry carrying the code "Error"
IsErrorSentinel(c) ==
    /\ c.jtype = "object"
    /\ c.keys = {"cpt_codes", "icd10_codes"}
    /\ c.cpt_codes # <<>> /\ c.icd10_codes # <<>>
    /\ \A i \in 1..Len(c.cpt_codes) : c.cpt_codes[i].code = "Error"
    /\ \A i \in 1..Len(c.icd10_codes) : c.icd10_codes[i].code = "Error"

\* display texts joined by single spaces
RECURSIVE JoinDisplays(_)
JoinDisplays(ps) ==
    IF ps = <<>> THEN <<>>
    ELSE IF Len(ps) = 1 THEN PhraseDisplay(ps[1])
    ELSE PhraseDisplay(ps[1]) \o <<" ">> \o JoinDisplays(Tail(ps))

\* without the white space at both ends
RECURSIVE Trimmed(_)
Trimmed(t) ==
    IF t = <<>> THEN t
    ELSE IF t[1] = " " THEN Trimmed(Tail(t))
    ELSE IF t[Len(t)] = " " THEN Trimmed(SubSeq(t, 1, Len(t) - 1))
    ELSE t

\* transcribe_audio has returned a transcript
Extracted == pc \in {"gen_soap", "gen_referral", "gen_codes"} \/ calls.soap > 0

\* the payload of a completion: what is left without fences and white space
RECURSIVE Payload(_)
Payload(t) ==
    IF t = <<>> THEN <<>>
    ELSE IF Head(t) \in {"~~~json", "~~~", " ", "\n"} THEN Payload(Tail(t))
    ELSE <<Head(t)>> \o Payload(Tail(t))

\* the completion carries the structure {cpt_codes: [...], icd10_codes: [...]}
HasExpectedStructure(c) == c.kind = "text" /\ Payload(c.text) = <<"{codes}">>

\* the text extraction is to give for a transcript file
ExtractedText(body) ==
    LET text == Trimmed(JoinDisplays(body.phrases))
    IN  IF text = <<>> THEN NoTranscription ELSE text

\* a phrase with a display text that has no blank at its ends
Plain(p) ==
    /\ p.has /\ p.display # <<>>
    /\ p.display[1] # " " /\ p.display[Len(p.display)] # " "

\* the request has ended in the complete response
Succeeded200 == Done /\ status = 200

\* the detail text holds the message as one unchanged piece
Carries(text, message) == \E i \in 1..Len(text) : text[i] = message

\* an object with both lists, each a list of {code, description} entries
WellFormedCodes(c) ==
    /\ c.jtype = "object"
    /\ {"cpt_codes", "icd10_codes"} \subseteq c.keys
    /\ \A i \in 1..Len(c.cpt_codes) :
          DOMAIN c.cpt_codes[i] = {"code", "description"}
    /\ \A i \in 1..Len(c.icd10_codes) :
          DOMAIN c.icd10_codes[i] = {"code", "description"}

\* the completion is a payload between an opening and a closing code fence
Fenced(t) ==
    /\ Len(t) >= 3
    /\ t[1] \in {"~~~json", "~~~"}
    /\ t[Len(t)] = "~~~"

\* the requests that have a storage key
Named == { r \in Requests : requests[r].pc \in {"upload", "uploaded", "failed"} }

\* the objects request r has in the container
ObjectsOf(r) == { b \in blobs : b.by = r }

-----------------------------------------------------------------------------
(* C1: under FairSpec (every call returns), a request with a whitelisted   *)
(* file name terminates, and its answer is then exactly one of the         *)
(* complete response or one error with status 400, 500 or 408.             *)
C1_Terminates ==
    /\ <>Done
    /\ [](HasWhitelistedExtension(filename) /\ Done =>
            /\ CompleteResponse \/ ClassifiedError
            /\ ~(CompleteResponse /\ ClassifiedError))

\* a request that polled the job to the end of the loop and ended in 408
C1_Witness ==
    /\ Done /\ HasWhitelistedExtension(filename)
    /\ "timed_out" \in events /\ status = 408

(* C2: a file name without a whitelisted extension ends the request with   *)
(* 400 and no remote call is ever issued for it.                           *)
C2_InvalidFileFailsFast ==
    ~HasWhitelistedExtension(filename) =>
        /\ pc \in {"start", "done"}
        /\ calls = NoCalls
        /\ jobStatus = "NoJob"
        /\ Done => status = 400

C2_Witness ==
    /\ Done /\ status = 400
    /\ filename = <<"f", ".", "w", "a", "v", ".", "e", "x", "e">>

(* C3: no status poll is issued later than 120 seconds after submission   *)
(* (at pc = "poll" the request is issuing the GET of line 202): a job that *)
(* is still running at the deadline is not polled again.                   *)
C3_NoPollPastDeadline ==
    ~(pc = "poll" /\ elapsed > 120)

C5_FirstFailureEnds ==
    /\ calls.submit > 0 => calls.upload > 0
    /\ pc \in {"loop", "poll", "files", "content"} => calls.submit > 0
    /\ ~NoGenerationCall => calls.manifest > 0 /\ calls.content > 0
    /\ calls.referral > 0 => calls.soap > 0
    /\ calls.codes > 0 => calls.referral > 0
    /\ events \cap {"upload_failed", "submit_failed", "status_failed",
                    "timed_out", "manifest_failed", "manifest_malformed",
                    "no_transcription_file", "content_failed",
                    "content_malformed"} # {}
          => NoGenerationCall /\ (Done => status # 200)

(* C6: a request ends with 408 only when no status poll has reported a     *)
(* final status, and a job reported as Failed ends the request with 500.   *)
C6_TimeoutDistinct ==
    /\ (Done /\ status = 408) =>
          events \cap {"status_succeeded", "status_failed"} = {}
    /\ "status_failed" \in events => Done /\ status = 500

C8_FallbackOnUnexpected ==
    (calls.codes = 1 /\ ~HasExpectedStructure(codes_completion)) =>
        /\ IsErrorSentinel(codes)
        /\ Done /\ status = 200

(* C9: once the manifest of a succeeded job is seen to hold no file of     *)
(* kind Transcription, or the transcript file is seen not to hold a phrase *)
(* list, the request has ended with the error 500.                         *)
C9_ExtractionFails ==
    events \cap {"no_transcription_file", "content_malformed",
                 "content_nokey"} # {}
        => Done /\ status = 500

(* C10: every stage is issued at most once, and after a manifest fetch or  *)
(* a transcript-file fetch that failed the request ends with an error and  *)
(* no manifest is fetched a second time.                                   *)
C10_NoRetry ==
    /\ calls.upload <= 1 /\ calls.submit <= 1
    /\ calls.soap <= 1 /\ calls.referral <= 1 /\ calls.codes <= 1
    /\ events \cap {"manifest_failed", "content_failed"} # {}
          => calls.manifest <= 1 /\ (Done => status # 200)

(* C11: when the request succeeds, the transcript of the response is the   *)
(* text extracted from the transcript file of the succeeded job and each   *)
(* of the three generation calls was invoked with that same text; with one *)
(* phrase that has no blank at its ends the transcript is that phrase,     *)
(* whatever the polls before the one that reported Succeeded.              *)
C11_SameTranscript ==
    Succeeded200 =>
        /\ "status_succeeded" \in events
        /\ TranscriptionResponse.transcript = ExtractedText(content_body)
        /\ inputs.soap = TranscriptionResponse.transcript
        /\ inputs.referral = TranscriptionResponse.transcript
        /\ inputs.codes = TranscriptionResponse.transcript
        /\ (Len(content_body.phrases) = 1 /\ Plain(content_body.phrases[1]))
              => TranscriptionResponse.transcript
                     = content_body.phrases[1].display

\* a successful request whose transcript file held the one phrase "a"
C11_Witness ==
    /\ Succeeded200
    /\ content_body.phrases = <<[has |-> TRUE, display |-> <<"a">>]>>
    /\ TranscriptionResponse.transcript = <<"a">>
    /\ inputs = [soap |-> <<"a">>, referral |-> <<"a">>, codes |-> <<"a">>]

(* C12: a submission answered with 201 or 202 (and a readable body) yields *)
(* a job and is no failure; one answered with any other status ends the    *)
(* request with 500 and no job is polled.                                  *)
C12_AcceptedStatuses ==
    /\ (events \cap {"submit_201", "submit_202"} # {}
           /\ "submit_malformed" \notin events)
          => jobStatus # "NoJob" /\ "submit_failed" \notin events
    /\ "submit_rejected" \in events =>
          Done /\ status = 500 /\ jobStatus = "NoJob"

(* C13: once a status poll has reported the job as Succeeded, the request  *)
(* is never again waiting for or issuing a status poll.                    *)
C13_SucceededLeavesPolling ==
    "status_succeeded" \in events => pc \notin {"loop", "poll"}

(* C14: once a status poll has reported the job as Failed, the request has *)
(* ended (no further wait or poll) with the error 500, and when the        *)
(* backend reported an error message the detail of that error holds the    *)
(* message unchanged.                                                      *)
C14_FailedCarriesDetail ==
    "status_failed" \in events =>
        /\ Done /\ status = 500
        /\ pc \notin {"loop", "poll"}
        /\ job_error.has => Carries(detail, job_error.message)

C14_Witness ==
    /\ Done /\ "status_failed" \in events
    /\ job_error = [has |-> TRUE, message |-> "audio rejected"]
    /\ detail = <<"Transcription failed: ", "audio rejected">>

(* C15: the tick on which a status poll reads a malformed body is a no-op: *)
(* the request goes on to the next tick of the loop and the tick is        *)
(* counted.                                                                *)
C15_UnreadablePollIsNoOp ==
    [][("status_malformed" \in events' /\ "status_malformed" \notin events)
          => (pc' = "loop" /\ attempt' = attempt + 1)]_vars

(* C16: no generation call returns a document for an empty or unusable     *)
(* completion: a SOAP note or referral letter that was returned is not     *)
(* empty, and a billing-code call that got an error, no content or an      *)
(* empty text ends the request with 500.                                   *)
C16_GenerationFailsOnUnusable ==
    /\ (calls.soap = 1 /\ "soap_failed" \notin events) => soap_note # <<>>
    /\ (calls.referral = 1 /\ "referral_failed" \notin events)
          => referral_letter # <<>>
    /\ (calls.codes = 1 /\ (codes_completion.kind # "text"
                              \/ Payload(codes_completion.text) = <<>>))
          => Done /\ status = 500

(* C17: whatever the completion, the value generate_billing_codes has      *)
(* returned is an object with the keys cpt_codes and icd10_codes, each a   *)
(* list of {code, description} entries.                                    *)
C17_WellFormedCodes ==
    calls.codes = 1 => WellFormedCodes(codes)

(* C18: a completion that wraps a JSON value in code fences, with the json *)
(* tag or bare, gives the codes the unwrapped value gives.                 *)
C18_FenceTransparent ==
    (calls.codes = 1 /\ codes_completion.kind = "text"
       /\ Fenced(codes_completion.text)
       /\ Len(Payload(codes_completion.text)) = 1
       /\ Payload(codes_completion.text)[1] \in JSONTokens)
        => codes = generate_billing_codes(
                       [kind |-> "text",
                        text |-> Payload(codes_completion.text)])

(* C19: under StorageSpec (concurrent requests, every id drawn differing   *)
(* from the ids drawn before), no two requests have the same storage key,  *)
(* no key holds two objects, a request that has uploaded has exactly one   *)
(* object, under its own key and still its own, and a request that has not *)
(* uploaded has none.                                                      *)
C19_OwnKey ==
    /\ \A r \in Named, q \in Named :
          r # q => requests[r].blob_name # requests[q].blob_name
    /\ \A b \in blobs, c \in blobs : b.key = c.key => b = c
    /\ \A r \in Requests :
          ObjectsOf(r) = IF requests[r].pc = "uploaded"
                         THEN { [key |-> requests[r].blob_name, by |-> r] }
                         ELSE {}

\* two requests that sent the same file name have both uploaded
C19_Witness ==
    /\ requests[1].pc = "uploaded" /\ requests[2].pc = "uploaded"
    /\ requests[1].filename = requests[2].filename
    /\ Cardinality(blobs) = 2

(* C20: at most 60 status polls are issued; every status poll, the first   *)
(* included, comes right after one wait of 5 seconds (the clock stops at   *)
(* ClockCap), never right after another poll; and when the 60th poll has   *)
(* ended without a transcript or a Failed status the next step ends the    *)
(* request with 408.                                                       *)
C20_PollBudget ==
    /\ [](attempt <= 60 /\ (pc = "poll" => attempt < 60))
    /\ [][pc' = "poll" =>
            /\ pc = "loop"
            /\ elapsed' = elapsed + 5 \/ elapsed' = ClockCap]_vars
    /\ [][(pc = "loop" /\ attempt = 60) =>
            (pc' = "done" /\ status' = 408)]_vars

\* the 60th poll is being issued
C20_Witness ==
    pc = "poll" /\ attempt = 59 /\ elapsed = ClockCap

====
